---- MODULE Spec2Model ----
(***************************************************************************)
(* Discrete-time failure simulator of main.py: five components in three    *)
(* tiers (network, databases, servers), failure injection, dependency      *)
(* propagation, load balancing, cost accrual, recovery and the metrics.    *)
(* The callers (inject_failure, simulate, reset_system) may be invoked in  *)
(* any order; simulate runs its loop one iteration per step of the model.  *)
(***************************************************************************)
EXTENDS Integers, Sequences, FiniteSets, TLC

\* ---------------------------------------------------------------- bounds
\* Largest argument of simulate(time_steps).
MaxSteps == 4
\* inject_failure is called only while the timeline is shorter than this.
MaxTimeline == 2
\* simulate is called only while fewer recoveries than this are recorded.
MaxHistory == 2
\* simulate is called only while the accumulated cost is below this.
MaxCost == 60000
\* Largest total_time argument tried for calculate_resilience_score.
MaxTotalTime == 5

\* ------------------------------------------------------- system setup
None == -1

network == "Network"

databases == <<"Database-1", "Database-2">>

servers == <<"WebServer-1", "WebServer-2">>

\* [network] + databases + servers
components == <<network>> \o databases \o servers

Names == {components[i] : i \in DOMAIN components}

max_load ==
    [c \in Names |->
        IF c = network THEN 80
        ELSE IF c \in {databases[i] : i \in DOMAIN databases} THEN 100
        ELSE 120]

cost_per_step ==
    [c \in Names |->
        IF c = network THEN 5000
        ELSE IF c \in {databases[i] : i \in DOMAIN databases} THEN 20000
        ELSE 15000]

recovery_time ==
    [c \in Names |->
        IF c = network THEN 3
        ELSE IF c \in {databases[i] : i \in DOMAIN databases} THEN 2
        ELSE 1]

dependencies ==
    [c \in Names |->
        IF c = network THEN << >>
        ELSE IF c \in {databases[i] : i \in DOMAIN databases} THEN <<network>>
        ELSE databases]

\* Load added to a component per failed dependency (update_component).
DepLoad == 50

\* Default of distribute_traffic(total_traffic=120).
total_traffic == 120

VARIABLES
    status,              \* component -> "UP" | "DOWN"
    load,                \* component -> accumulated load
    down_since,          \* component -> time of failure, or None
    degraded,            \* component -> load balancer flag
    recovery_history,    \* component -> sequence of recovery durations
    failure_timeline,    \* sequence of <<time, name, cause>>
    current_time,
    system_down_time,    \* time of first observed outage, or None
    total_failure_cost,
    time_steps,          \* argument of the running simulate call (0: none)
    t,                   \* loop index of simulate last completed
    mc_results,          \* results of monte_carlo_simulation so far
    mc_runs,             \* trials left in the running batch (0: none)
    mc_time_steps        \* time_steps argument of the running batch

vars == <<status, load, down_since, degraded, recovery_history,
          failure_timeline, current_time, system_down_time,
          total_failure_cost, time_steps, t,
          mc_results, mc_runs, mc_time_steps>>

\* The locals of monte_carlo_simulation and the results it returns.
mc_vars == <<mc_results, mc_runs, mc_time_steps>>

\* The simulation state as one value, for the operators below.
Cur ==
    [status |-> status, load |-> load, down_since |-> down_since,
     degraded |-> degraded, recovery_history |-> recovery_history,
     failure_timeline |-> failure_timeline, current_time |-> current_time,
     system_down_time |-> system_down_time,
     total_failure_cost |-> total_failure_cost]

Install(s) ==
    /\ status' = s.status
    /\ load' = s.load
    /\ down_since' = s.down_since
    /\ degraded' = s.degraded
    /\ recovery_history' = s.recovery_history
    /\ failure_timeline' = s.failure_timeline
    /\ current_time' = s.current_time
    /\ system_down_time' = s.system_down_time
    /\ total_failure_cost' = s.total_failure_cost

\* Component.__init__ for all five, and the global tracking variables.
Baseline ==
    [status |-> [c \in Names |-> "UP"],
     load |-> [c \in Names |-> 0],
     down_since |-> [c \in Names |-> None],
     degraded |-> [c \in Names |-> FALSE],
     recovery_history |-> [c \in Names |-> << >>],
     failure_timeline |-> << >>,
     current_time |-> 0,
     system_down_time |-> None,
     total_failure_cost |-> 0]

\* ---------------------------------------------------------- core logic
inject_failure(s, c) ==
    [s EXCEPT !.status[c] = "DOWN",
              !.down_since[c] = s.current_time,
              !.failure_timeline =
                  Append(@, <<s.current_time, c, "Injected failure">>)]

\* Number of dependencies of c that are DOWN.
FailedDeps(s, c) ==
    Cardinality({i \in DOMAIN dependencies[c] :
                    s.status[dependencies[c][i]] = "DOWN"})

\* Mutant: a load equal to the capacity already fails the component.
Overloaded_AtCapacity(l, c) == l >= max_load[c]

Overloaded(l, c) == l > max_load[c]

update_component(s, c) ==
    IF s.status[c] = "DOWN" THEN s
    ELSE LET l == s.load[c] + DepLoad * FailedDeps(s, c)
             s1 == [s EXCEPT !.load[c] = l]
         IN  IF Overloaded(l, c)
             THEN [s1 EXCEPT !.status[c] = "DOWN",
                             !.down_since[c] = s.current_time,
                             !.failure_timeline =
                                 Append(@, <<s.current_time, c,
                                     "Overload due to dependency failure">>)]
             ELSE s1

\* ------------------------------------------------------- load balancer
\* 0.8 * max_load < load <= max_load
IsDegraded(l, c) == 8 * max_load[c] < 10 * l /\ l <= max_load[c]

\* Mutant: the share replaces the server's load instead of adding to it.
GiveTraffic_Assign(s, srv, traffic_per_server) ==
    LET l == traffic_per_server
        s1 == [s EXCEPT !.load[srv] = l]
        s2 == IF IsDegraded(l, srv)
              THEN [s1 EXCEPT !.degraded[srv] = TRUE] ELSE s1
    IN  IF Overloaded(l, srv)
        THEN [s2 EXCEPT !.status[srv] = "DOWN",
                        !.down_since[srv] = s.current_time,
                        !.failure_timeline =
                            Append(@, <<s.current_time, srv,
                                        "Traffic overload">>)]
        ELSE s2

\* Body of the loop over active_servers, for one server.
GiveTraffic(s, srv, traffic_per_server) ==
    LET l == s.load[srv] + traffic_per_server
        s1 == [s EXCEPT !.load[srv] = l]
        s2 == IF IsDegraded(l, srv)
              THEN [s1 EXCEPT !.degraded[srv] = TRUE] ELSE s1
    IN  IF Overloaded(l, srv)
        THEN [s2 EXCEPT !.status[srv] = "DOWN",
                        !.down_since[srv] = s.current_time,
                        !.failure_timeline =
                            Append(@, <<s.current_time, srv,
                                        "Traffic overload">>)]
        ELSE s2

RECURSIVE TrafficLoop(_, _, _, _)
TrafficLoop(s, active, i, share) ==
    IF i > Len(active) THEN s
    ELSE TrafficLoop(GiveTraffic(s, active[i], share), active, i + 1, share)

\* Mutant: servers that are DOWN are given traffic too.
distribute_traffic_NoFilter(s, traffic) ==
    TrafficLoop(s, servers, 1, traffic \div Len(servers))

\* Mutant: the traffic is split over all servers, not the active ones.
distribute_traffic_AllServers(s, traffic) ==
    LET up(srv) == s.status[srv] = "UP"
        active_servers == SelectSeq(servers, up)
    IN  IF active_servers = << >> THEN s
        ELSE TrafficLoop(s, active_servers, 1, traffic \div Len(servers))

distribute_traffic(s, traffic) ==
    LET up(srv) == s.status[srv] = "UP"
        active_servers == SelectSeq(servers, up)
    IN  IF active_servers = << >> THEN s
        ELSE TrafficLoop(s, active_servers, 1,
                         traffic \div Len(active_servers))

\* ------------------------------------------------------------ recovery
\* Mutant: recovery waits one step longer than recovery_time.
CanRecover_Strict(s, c) ==
    /\ s.status[c] = "DOWN"
    /\ s.down_since[c] # None
    /\ s.current_time - s.down_since[c] > recovery_time[c]

\* Mutant: the recovery threshold is off by one.
CanRecover_OffByOne(s, c) ==
    /\ s.status[c] = "DOWN"
    /\ s.down_since[c] # None
    /\ s.current_time - s.down_since[c] >= recovery_time[c] - 1

CanRecover(s, c) ==
    /\ s.status[c] = "DOWN"
    /\ s.down_since[c] # None
    /\ s.current_time - s.down_since[c] >= recovery_time[c]

\* Mutant: recovery forgets to clear down_since.
RecoverOne_KeepsDownSince(s, c) ==
    IF CanRecover(s, c)
    THEN [s EXCEPT !.status[c] = "UP",
                   !.load[c] = 0,
                   !.degraded[c] = FALSE,
                   !.recovery_history[c] =
                       Append(@, s.current_time - s.down_since[c])]
    ELSE s

RecoverOne(s, c) ==
    IF CanRecover(s, c)
    THEN [s EXCEPT !.status[c] = "UP",
                   !.load[c] = 0,
                   !.degraded[c] = FALSE,
                   !.down_since[c] = None,
                   !.recovery_history[c] =
                       Append(@, s.current_time - s.down_since[c])]
    ELSE s

RECURSIVE RecoverLoop(_, _)
RecoverLoop(s, i) ==
    IF i > Len(components) THEN s
    ELSE RecoverLoop(RecoverOne(s, components[i]), i + 1)

recover_components(s) == RecoverLoop(s, 1)

\* ------------------------------------------------------- system checks
AllDown(s, tier) == \A i \in DOMAIN tier : s.status[tier[i]] = "DOWN"

\* Mutant: an outage needs both tiers DOWN.
system_down_AllTiers(s) == AllDown(s, databases) /\ AllDown(s, servers)

system_down(s) == AllDown(s, databases) \/ AllDown(s, servers)

\* ---------------------------------------------------------- simulation
RECURSIVE UpdateLoop(_, _, _)
UpdateLoop(s, tier, i) ==
    IF i > Len(tier) THEN s
    ELSE UpdateLoop(update_component(s, tier[i]), tier, i + 1)

RECURSIVE FailureCost(_, _)
FailureCost(s, i) ==
    IF i > Len(components) THEN 0
    ELSE (IF s.status[components[i]] = "DOWN"
          THEN cost_per_step[components[i]] ELSE 0) + FailureCost(s, i + 1)

AccrueCost(s) ==
    [s EXCEPT !.total_failure_cost = @ + FailureCost(s, 1)]

RecordSystemDown(s) ==
    IF system_down(s) /\ s.system_down_time = None
    THEN [s EXCEPT !.system_down_time = s.current_time]
    ELSE s

\* Mutant: the servers are propagated before the databases.
SimulateBody_ServersFirst(s, k) ==
    LET s0 == [s EXCEPT !.current_time = k]
        s1 == UpdateLoop(s0, servers, 1)
        s2 == UpdateLoop(s1, databases, 1)
        s3 == distribute_traffic(s2, total_traffic)
        s4 == AccrueCost(s3)
        s5 == RecordSystemDown(s4)
    IN  recover_components(s5)

\* Mutant: recovery runs before cost accrual and the outage check.
SimulateBody_RecoverFirst(s, k) ==
    LET s0 == [s EXCEPT !.current_time = k]
        s1 == UpdateLoop(s0, databases, 1)
        s2 == UpdateLoop(s1, servers, 1)
        s3 == distribute_traffic(s2, total_traffic)
        s4 == recover_components(s3)
        s5 == AccrueCost(s4)
    IN  RecordSystemDown(s5)

\* One iteration of the loop of simulate, with loop index k.
SimulateBody(s, k) ==
    LET s0 == [s EXCEPT !.current_time = k]
        s1 == UpdateLoop(s0, databases, 1)
        s2 == UpdateLoop(s1, servers, 1)
        s3 == distribute_traffic(s2, total_traffic)
        s4 == AccrueCost(s3)
        s5 == RecordSystemDown(s4)
    IN  recover_components(s5)

\* ------------------------------------------------------------- metrics
TimelineNames(s) ==
    {s.failure_timeline[i][2] : i \in DOMAIN s.failure_timeline}

Max(a, b) == IF a >= b THEN a ELSE b

\* Mutant: the score is not floored at 0.
calculate_resilience_score_NoFloor(s, total_time) ==
    LET a == IF s.system_down_time # None
             THEN 100 - (total_time - s.system_down_time) * 10
             ELSE 100
        b == a - Cardinality(TimelineNames(s)) * 10
    IN  b - Len(s.failure_timeline) * 5

calculate_resilience_score(s, total_time) ==
    LET a == IF s.system_down_time # None
             THEN 100 - (total_time - s.system_down_time) * 10
             ELSE 100
        b == a - Cardinality(TimelineNames(s)) * 10
        c == b - Len(s.failure_timeline) * 5
    IN  Max(c, 0)

\* Mutant: reset_system forgets to zero the loads.
reset_system_KeepsLoad(s) ==
    [s EXCEPT !.failure_timeline = << >>,
              !.current_time = 0,
              !.system_down_time = None,
              !.total_failure_cost = 0,
              !.status = [c \in Names |-> "UP"],
              !.down_since = [c \in Names |-> None],
              !.degraded = [c \in Names |-> FALSE]]

reset_system(s) ==
    [s EXCEPT !.failure_timeline = << >>,
              !.current_time = 0,
              !.system_down_time = None,
              !.total_failure_cost = 0,
              !.status = [c \in Names |-> "UP"],
              !.load = [c \in Names |-> 0],
              !.down_since = [c \in Names |-> None],
              !.degraded = [c \in Names |-> FALSE]]

\* ------------------------------------------------------------- actions
Idle == t = time_steps

HistoryCount(i) == Len(recovery_history[components[i]])

RECURSIVE HistoryTotal(_)
HistoryTotal(i) ==
    IF i > Len(components) THEN 0 ELSE HistoryCount(i) + HistoryTotal(i + 1)

Init ==
    /\ status = Baseline.status
    /\ load = Baseline.load
    /\ down_since = Baseline.down_since
    /\ degraded = Baseline.degraded
    /\ recovery_history = Baseline.recovery_history
    /\ failure_timeline = Baseline.failure_timeline
    /\ current_time = Baseline.current_time
    /\ system_down_time = Baseline.system_down_time
    /\ total_failure_cost = Baseline.total_failure_cost
    /\ time_steps = 0
    /\ t = 0
    /\ mc_results = << >>
    /\ mc_runs = 0
    /\ mc_time_steps = 0

Inject(c) ==
    /\ Idle
    /\ Len(failure_timeline) < MaxTimeline
    /\ Install(inject_failure(Cur, c))
    /\ UNCHANGED <<time_steps, t, mc_vars>>

\* The call simulate(n): the loop is entered with no iteration done yet.
Simulate(n) ==
    /\ Idle
    /\ HistoryTotal(1) < MaxHistory
    /\ total_failure_cost < MaxCost
    /\ time_steps' = n
    /\ t' = 0
    /\ UNCHANGED <<status, load, down_since, degraded, recovery_history,
                   failure_timeline, current_time, system_down_time,
                   total_failure_cost, mc_vars>>

\* One iteration of the loop; simulate returns after the last one.
SimulateStep ==
    /\ t < time_steps
    /\ Install(SimulateBody(Cur, t + 1))
    /\ IF t + 1 = time_steps
       THEN time_steps' = 0 /\ t' = 0
       ELSE t' = t + 1 /\ UNCHANGED time_steps
    /\ UNCHANGED mc_vars

Reset ==
    /\ Idle
    /\ Install(reset_system(Cur))
    /\ UNCHANGED <<time_steps, t, mc_vars>>

Next ==
    \/ \E c \in Names : Inject(c)
    \/ \E n \in 0..MaxSteps : Simulate(n)
    \/ SimulateStep
    \/ Reset

Spec == Init /\ [][Next]_vars

\* ============================================================== claims
\* Components that are DOWN in some state of a step: since a component
\* cannot fail and recover in one iteration, these are the components
\* that are DOWN when cost is accrued and system_down() is evaluated.
DownAtCheck(c) == status[c] = "DOWN" \/ status'[c] = "DOWN"

Recovered(c) == Len(recovery_history'[c]) = Len(recovery_history[c]) + 1

RECURSIVE SumCost(_)
SumCost(S) ==
    IF S = {} THEN 0
    ELSE LET c == CHOOSE x \in S : TRUE
         IN  cost_per_step[c] + SumCost(S \ {c})

InjectedCount(c) ==
    Cardinality({i \in DOMAIN failure_timeline :
                    failure_timeline[i][2] = c
                    /\ failure_timeline[i][3] = "Injected failure"})

\* C1: inject_failure on a component that is already DOWN leaves its
\* status, down_since and load unchanged.
C1_InjectOnFailedIsNoOp ==
    [][\A c \in Names :
          (Inject(c) /\ status[c] = "DOWN")
              => /\ status'[c] = status[c]
                 /\ down_since'[c] = down_since[c]
                 /\ load'[c] = load[c]]_vars

\* C2: reset_system yields exactly the baseline of initial construction,
\* recovery histories included.
C2_ResetRestoresBaseline ==
    [][Reset => /\ status' = Baseline.status
                /\ load' = Baseline.load
                /\ down_since' = Baseline.down_since
                /\ degraded' = Baseline.degraded
                /\ recovery_history' = Baseline.recovery_history
                /\ failure_timeline' = Baseline.failure_timeline
                /\ current_time' = Baseline.current_time
                /\ system_down_time' = Baseline.system_down_time
                /\ total_failure_cost' = Baseline.total_failure_cost]_vars

\* C3: in every reachable state, down_since is set exactly for the
\* components whose status is DOWN.
C3_DownSinceIffDown ==
    \A c \in Names : (down_since[c] # None) <=> (status[c] = "DOWN")

\* A component failed during a step (stamped with a step's time) while
\* another one has recovered and is UP again with down_since cleared.
C3_Witness ==
    /\ \E c \in Names : status[c] = "DOWN" /\ down_since[c] >= 1
    /\ \E d \in Names : /\ status[d] = "UP"
                        /\ recovery_history[d] # << >>
                        /\ down_since[d] = None

\* C4: every iteration of simulate increments current_time by exactly 1,
\* also in a call of simulate that follows an earlier call without reset.
C4_StepIncrementsTime ==
    [][SimulateStep => current_time' = current_time + 1]_vars

\* C5: a failed component is UP at the end of the step in which
\* recovery_time steps have been executed since it failed. Stated for the
\* cases a single step decides: a server (recovery_time 1) that is DOWN
\* when a step begins is UP when it ends, and the network, which fails by
\* injection only and so was DOWN throughout the running call if it is
\* DOWN now, is UP at the end of iteration k of a call for k >= 3.
C5_RecoversAfterRecoveryTime ==
    [][SimulateStep =>
          \A c \in Names :
              (/\ status[c] = "DOWN"
               /\ \/ recovery_time[c] = 1
                  \/ dependencies[c] = << >> /\ t + 1 >= recovery_time[c])
                  => status'[c] = "UP"]_vars

\* C6: an iteration of simulate adds to total_failure_cost exactly the
\* cost_per_step of the components that are DOWN before recovery runs
\* (those DOWN when the step began, recovering or not, and those that
\* failed in the step); inject_failure leaves the cost alone.
C6_CostPerStep ==
    [][/\ SimulateStep =>
             /\ total_failure_cost' - total_failure_cost =
                    SumCost({c \in Names : DownAtCheck(c)})
             /\ total_failure_cost' >= total_failure_cost
       /\ (\E c \in Names : Inject(c)) =>
             total_failure_cost' = total_failure_cost]_vars

\* The server injected at time 0 recovered in step 1 and was charged
\* for that step.
C6_Witness ==
    /\ current_time = 1
    /\ status[servers[1]] = "UP"
    /\ recovery_history[servers[1]] = <<1>>
    /\ total_failure_cost = cost_per_step[servers[1]]

\* C7: every entry of a component's recovery_history is at least the
\* component's recovery_time.
C7_HistoryAtLeastRecoveryTime ==
    \A c \in Names :
        \A i \in DOMAIN recovery_history[c] :
            recovery_history[c][i] >= recovery_time[c]

\* A component injected twice since the last reset has recovered.
C7_Witness ==
    \E c \in Names : InjectedCount(c) >= 2 /\ recovery_history[c] # << >>

\* C8: load is never negative; across an iteration of simulate the load
\* of a component does not decrease unless the component recovered in
\* it, and then its load is 0; inject_failure does not change any load.
C8_LoadMonotone ==
    [][/\ SimulateStep =>
             \A c \in Names :
                 /\ load'[c] >= 0
                 /\ Recovered(c) => load'[c] = 0
                 /\ ~Recovered(c) => load'[c] >= load[c]
       /\ (\E c \in Names : Inject(c)) => load' = load]_vars

\* A server that carried load has recovered in the last step with load 0
\* while the other server carries load.
C8_Witness ==
    /\ recovery_history[servers[1]] # << >>
    /\ load[servers[1]] = 0
    /\ load[servers[2]] > 0
    /\ failure_timeline # << >>
    /\ failure_timeline[Len(failure_timeline)][3] = "Traffic overload"

C10_ScoreInRange ==
    /\ \A total_time \in 0..MaxTotalTime :
           calculate_resilience_score(Cur, total_time) \in 0..100
    /\ total_failure_cost >= 0

\* An outage is recorded at time 3 and the score is asked for time 0.
C10_Witness ==
    /\ system_down_time = 3
    /\ calculate_resilience_score(Cur, 0) = 100
    /\ calculate_resilience_score(Cur, MaxTotalTime) < 100

\* ------------------------------------------------------- dashboard.py
\* The dashboard's own copies of the logic, on st.session_state: the
\* components (status, load, down_since, recovery_history), time
\* (current_time here) and cost (total_failure_cost here).
\* The dashboard steps only while time is below this.
MaxDashTime == 3

dash_inject_failure(s, c) ==
    IF s.status[c] = "UP"
    THEN [s EXCEPT !.status[c] = "DOWN",
                   !.down_since[c] = s.current_time]
    ELSE s

dash_update_component(s, c) ==
    IF s.status[c] # "UP" THEN s
    ELSE LET l == s.load[c] + 50 * FailedDeps(s, c)
             s1 == [s EXCEPT !.load[c] = l]
         IN  IF l > max_load[c]
             THEN [s1 EXCEPT !.status[c] = "DOWN",
                             !.down_since[c] = s.current_time]
             ELSE s1

RECURSIVE DashUpdateLoop(_, _, _)
DashUpdateLoop(s, tier, i) ==
    IF i > Len(tier) THEN s
    ELSE DashUpdateLoop(dash_update_component(s, tier[i]), tier, i + 1)

DashRecoverOne(s, c) ==
    IF /\ s.status[c] = "DOWN"
       /\ s.down_since[c] # None
       /\ s.current_time - s.down_since[c] >= recovery_time[c]
    THEN [s EXCEPT !.status[c] = "UP",
                   !.load[c] = 0,
                   !.recovery_history[c] =
                       Append(@, s.current_time - s.down_since[c]),
                   !.down_since[c] = None]
    ELSE s

RECURSIVE DashRecoverLoop(_, _)
DashRecoverLoop(s, i) ==
    IF i > Len(components) THEN s
    ELSE DashRecoverLoop(DashRecoverOne(s, components[i]), i + 1)

dash_recover_components(s) == DashRecoverLoop(s, 1)

dash_simulate_step(s) ==
    LET s0 == [s EXCEPT !.current_time = @ + 1]
        s1 == DashUpdateLoop(s0, databases, 1)
        s2 == DashUpdateLoop(s1, servers, 1)
        s3 == dash_recover_components(s2)
    IN  [s3 EXCEPT !.total_failure_cost = @ + FailureCost(s3, 1)]

\* init_system() builds fresh components; time and cost are zeroed.
dash_reset_system(s) ==
    [s EXCEPT !.status = Baseline.status,
              !.load = Baseline.load,
              !.down_since = Baseline.down_since,
              !.recovery_history = Baseline.recovery_history,
              !.current_time = 0,
              !.total_failure_cost = 0]

DashInject(c) ==
    /\ Install(dash_inject_failure(Cur, c))
    /\ UNCHANGED <<time_steps, t, mc_vars>>

DashStep ==
    /\ current_time < MaxDashTime
    /\ Install(dash_simulate_step(Cur))
    /\ UNCHANGED <<time_steps, t, mc_vars>>

DashReset ==
    /\ Install(dash_reset_system(Cur))
    /\ UNCHANGED <<time_steps, t, mc_vars>>

NextDash ==
    \/ \E c \in Names : DashInject(c)
    \/ DashStep
    \/ DashReset

SpecDash == Init /\ [][NextDash]_vars

\* ------------------------------------------------ script and batch
\* Largest runs argument of monte_carlo_simulation.
MaxRuns == 3

\* simulate(n) as a whole: the iterations k..n of its loop.  Iteration k
\* leaves current_time = k; reading it evaluates the iteration before the
\* next one is entered.
RECURSIVE SimulateRun(_, _, _)
SimulateRun(s, k, n) ==
    IF k > n THEN s
    ELSE LET s1 == SimulateBody(s, k)
         IN  IF s1.current_time = k THEN SimulateRun(s1, k + 1, n) ELSE s1

\* Body of the loop of monte_carlo_simulation up to the call of simulate.
TrialState(s, failed, n) ==
    SimulateRun(inject_failure(reset_system(s), failed), 1, n)

\* The dictionary a trial appends to results.
TrialResult(s, failed, n) ==
    [cost |-> s.total_failure_cost,
     score |-> calculate_resilience_score(s, n),
     failed |-> failed,
     outage |-> system_down(s)]

\* The script at the end of main.py, before the batch: reset_system(),
\* inject_failure(scenario_menu()), simulate(3).
MainRun(target) ==
    /\ Idle
    /\ mc_runs = 0
    /\ mc_results = << >>
    /\ current_time = 0
    /\ failure_timeline = << >>
    /\ Install(SimulateRun(inject_failure(reset_system(Cur), target), 1, 3))
    /\ UNCHANGED <<time_steps, t, mc_vars>>

\* The call monte_carlo_simulation(runs, n), before its first trial.
MonteCarlo(runs, n) ==
    /\ Idle
    /\ mc_runs = 0
    /\ mc_results = << >>
    /\ mc_runs' = runs
    /\ mc_time_steps' = n
    /\ mc_results' = << >>
    /\ UNCHANGED <<status, load, down_since, degraded, recovery_history,
                   failure_timeline, current_time, system_down_time,
                   total_failure_cost, time_steps, t>>

\* One trial: reset, inject the chosen component, simulate, record.
MonteCarloTrial(failed) ==
    /\ mc_runs > 0
    /\ LET s == TrialState(Cur, failed, mc_time_steps)
       IN  /\ Install(s)
           /\ mc_results' =
                  Append(mc_results, TrialResult(s, failed, mc_time_steps))
    /\ mc_runs' = mc_runs - 1
    /\ UNCHANGED <<time_steps, t, mc_time_steps>>

NextBatch ==
    \/ \E target \in Names : MainRun(target)
    \/ \E runs \in 1..MaxRuns, n \in 1..MaxSteps : MonteCarlo(runs, n)
    \/ \E failed \in Names : MonteCarloTrial(failed)

SpecBatch == Init /\ [][NextBatch]_vars

\* ------------------------------------------------ claims C11 to C20
NetworkInjectedAt0 == <<0, network, "Injected failure">>

\* C11: with only the network injected at time 0, step k + 1 of the run
\* (k steps done, all in this call: t = current_time = k, each database
\* at load 50 * k) leaves the network DOWN for k < 2 and recovers it in
\* step 3; after step 1 both databases are UP with load 50.
C11_NetworkScenario ==
    [][SimulateStep /\ failure_timeline = <<NetworkInjectedAt0>> =>
          \A k \in 0..2 :
              (/\ t = k
               /\ current_time = k
               /\ \A i \in DOMAIN databases : load[databases[i]] = 50 * k)
              => /\ status'[network] = IF k = 2 THEN "UP" ELSE "DOWN"
                 /\ k = 0 => \A i \in DOMAIN databases :
                                 /\ status'[databases[i]] = "UP"
                                 /\ load'[databases[i]] = 50]_vars

\* The end of step 3 of that run: the network has recovered after 3.
C11_Witness ==
    /\ current_time = 3
    /\ failure_timeline # << >>
    /\ failure_timeline[1] = NetworkInjectedAt0
    /\ status[network] = "UP"
    /\ recovery_history[network] = <<3>>
    /\ \A i \in DOMAIN databases : down_since[databases[i]] = 3

\* Indices of the timeline events a step appended for component c.
NewEventsOf(c) ==
    {i \in (Len(failure_timeline) + 1)..Len(failure_timeline') :
        failure_timeline'[i][2] = c}

\* Dependencies of c that are DOWN when c is propagated in a step.
DepsDown(c) ==
    Cardinality({i \in DOMAIN dependencies[c] :
                    DownAtCheck(dependencies[c][i])})

Tiered == {c \in Names : dependencies[c] # << >>}

DependencyOverload == "Overload due to dependency failure"

\* C13: in a step, propagation leaves a component that is DOWN alone
\* (no event, load kept unless it recovers); to one that is UP it adds
\* 50 per dependency that is DOWN, and fails it (DOWN, down_since =
\* current_time, one dependency-overload event) exactly when the
\* resulting load is strictly greater than max_load.
C13_Propagate ==
    [][SimulateStep =>
          \A c \in Tiered :
              LET l == load[c] + 50 * DepsDown(c)
              IN  IF status[c] = "DOWN"
                  THEN /\ NewEventsOf(c) = {}
                       /\ IF Recovered(c)
                          THEN load'[c] = 0
                          ELSE /\ load'[c] = load[c]
                               /\ status'[c] = "DOWN"
                               /\ down_since'[c] = down_since[c]
                  ELSE IF l > max_load[c]
                  THEN /\ status'[c] = "DOWN"
                       /\ load'[c] = l
                       /\ down_since'[c] = current_time'
                       /\ \E i \in NewEventsOf(c) :
                              /\ NewEventsOf(c) = {i}
                              /\ failure_timeline'[i] =
                                     <<current_time', c, DependencyOverload>>
                  ELSE /\ \A i \in NewEventsOf(c) :
                              failure_timeline'[i][3] # DependencyOverload
                       /\ load'[c] >= l
                       /\ dependencies[c] = <<network>> =>
                              /\ load'[c] = l
                              /\ status'[c] = "UP"
                              /\ down_since'[c] = None]_vars

\* A database is UP at a load equal to its capacity while a component
\* failed by dependency overload in the last step.
C13_Witness ==
    /\ \E i \in DOMAIN databases :
           /\ status[databases[i]] = "UP"
           /\ load[databases[i]] = max_load[databases[i]]
    /\ failure_timeline # << >>
    /\ failure_timeline[Len(failure_timeline)][1] = current_time
    /\ failure_timeline[Len(failure_timeline)][3] = DependencyOverload

ServerSet == {servers[i] : i \in DOMAIN servers}

\* Load of c after the propagation of a step.
Propagated(c) ==
    IF status[c] = "UP" THEN load[c] + 50 * DepsDown(c) ELSE load[c]

\* Servers that are UP after the propagation of a step.
ActiveAfterPropagation ==
    {srv \in ServerSet :
        status[srv] = "UP" /\ Propagated(srv) <= max_load[srv]}

TrafficOverload == "Traffic overload"

\* C14: in a step each of the k servers that are UP after propagation
\* gets 120 \div k added to its load; servers that are DOWN, databases
\* and the network get nothing; with no server UP the load balancer
\* appends no event and flags nothing. Two servers UP at load 0 with no
\* database DOWN end the step at load 60, not degraded.
C14_DistributeTraffic ==
    [][SimulateStep =>
          LET k == Cardinality(ActiveAfterPropagation)
          IN  /\ \A srv \in ActiveAfterPropagation :
                     load'[srv] = Propagated(srv) + (120 \div k)
              /\ \A c \in Names \ ActiveAfterPropagation :
                     load'[c] = IF Recovered(c) THEN 0 ELSE Propagated(c)
              /\ k = 0 =>
                     /\ \A i \in (Len(failure_timeline) + 1)
                                     ..Len(failure_timeline') :
                            failure_timeline'[i][3] # TrafficOverload
                     /\ \A srv \in ServerSet : degraded'[srv] => degraded[srv]
              /\ (/\ \A srv \in ServerSet :
                         status[srv] = "UP" /\ load[srv] = 0
                  /\ \A i \in DOMAIN databases :
                         ~DownAtCheck(databases[i]))
                 => \A srv \in ServerSet :
                        load'[srv] = 60 /\ ~degraded'[srv]]_vars

\* After step 1 the only active server holds the whole traffic, the
\* injected one has recovered with load 0.
C14_Witness ==
    /\ current_time = 1
    /\ load[servers[2]] = 120
    /\ degraded[servers[2]]
    /\ load[servers[1]] = 0
    /\ recovery_history[servers[1]] = <<1>>

\* C15: a step only appends to the timeline, at most one event per
\* component, and an event for c exactly when c goes from UP to DOWN in
\* the step (stamped with the step's time, as is down_since); a server
\* that propagation fails gets no traffic and no traffic-overload event.
C15_FailedOncePerStep ==
    [][SimulateStep =>
          /\ Len(failure_timeline') >= Len(failure_timeline)
          /\ SubSeq(failure_timeline', 1, Len(failure_timeline))
                 = failure_timeline
          /\ \A c \in Names :
                 /\ Cardinality(NewEventsOf(c)) <= 1
                 /\ NewEventsOf(c) # {} <=>
                        (status[c] = "UP" /\ status'[c] = "DOWN")
                 /\ \A i \in NewEventsOf(c) :
                        /\ failure_timeline'[i][1] = current_time'
                        /\ down_since'[c] = current_time'
          /\ \A srv \in ServerSet :
                 (status[srv] = "UP" /\ Propagated(srv) > max_load[srv])
                     => /\ load'[srv] = Propagated(srv)
                        /\ \A i \in NewEventsOf(srv) :
                               failure_timeline'[i][3] = DependencyOverload]_vars

\* A server failed by propagation in the last step: one event of that
\* time, with the dependency cause.
C15_Witness ==
    \E srv \in ServerSet :
        /\ status[srv] = "DOWN"
        /\ current_time >= 1
        /\ down_since[srv] = current_time
        /\ load[srv] > max_load[srv]
        /\ \E i \in DOMAIN failure_timeline :
               /\ failure_timeline[i] = <<current_time, srv, DependencyOverload>>
               /\ \A j \in DOMAIN failure_timeline :
                      (failure_timeline[j][2] = srv
                       /\ failure_timeline[j][1] = current_time) => j = i

\* C16: when a database goes from UP to DOWN in a step, every server
\* that was UP gets, in that same step, 50 for each database that is
\* DOWN once the databases are propagated (the newly failed one
\* included), and fails with the same time stamp if that overloads it.
C16_TiersInDependencyOrder ==
    [][SimulateStep =>
          \A i \in DOMAIN databases :
              (status[databases[i]] = "UP" /\ status'[databases[i]] = "DOWN")
              => LET n == Cardinality({j \in DOMAIN databases :
                                          DownAtCheck(databases[j])})
                 IN  \A srv \in ServerSet :
                         status[srv] = "UP" =>
                             /\ n >= 1
                             /\ load'[srv] - load[srv] >= 50 * n
                             /\ load[srv] + 50 * n > max_load[srv] =>
                                    /\ status'[srv] = "DOWN"
                                    /\ load'[srv] = load[srv] + 50 * n
                                    /\ down_since'[srv] =
                                           down_since'[databases[i]]]_vars

\* A database and a server both failed by dependency overload in the
\* last step, the database first.
C16_Witness ==
    \E i, j \in DOMAIN failure_timeline :
        /\ i < j
        /\ failure_timeline[i][1] = current_time
        /\ failure_timeline[i][2] \in {databases[k] : k \in DOMAIN databases}
        /\ failure_timeline[i][3] = DependencyOverload
        /\ failure_timeline[j][1] = current_time
        /\ failure_timeline[j][2] \in ServerSet
        /\ failure_timeline[j][3] = DependencyOverload
        /\ status[failure_timeline[j][2]] = "DOWN"
        /\ status[failure_timeline[i][2]] = "DOWN"

\* C17: at the end of every step a server is flagged degraded only if
\* it is UP and 0.8 * max_load < load <= max_load.
C17_DegradedOnlyHealthyInBand ==
    [][SimulateStep =>
          \A srv \in ServerSet :
              degraded'[srv] =>
                  /\ status'[srv] = "UP"
                  /\ 8 * max_load[srv] < 10 * load'[srv]
                  /\ load'[srv] <= max_load[srv]]_vars

\* C19: with an empty timeline (nothing injected, nothing failed) a
\* step adds 60 to the load of both servers and drains nothing: from
\* load 0 they are UP and not degraded at 60, from 60 UP and degraded at
\* 120, from 120 both fail at 180 with cause "Traffic overload" and the
\* step's time is recorded as system-down time, 3 in a run from baseline.
C19_TrafficAloneFailsServersAtStep3 ==
    [][SimulateStep /\ failure_timeline = << >> =>
          /\ \A srv \in ServerSet :
                 /\ load[srv] \in {0, 60, 120}
                 /\ load'[srv] = load[srv] + 60
                 /\ load[srv] = 0 => status'[srv] = "UP" /\ ~degraded'[srv]
                 /\ load[srv] = 60 => status'[srv] = "UP" /\ degraded'[srv]
                 /\ load[srv] = 120 => status'[srv] = "DOWN"
          /\ load[servers[1]] < 120 =>
                 failure_timeline' = << >> /\ system_down_time' = None
          /\ load[servers[1]] = 120 =>
                 /\ failure_timeline' =
                        <<<<current_time', servers[1], TrafficOverload>>,
                          <<current_time', servers[2], TrafficOverload>>>>
                 /\ system_down_time' = current_time'
                 /\ t = 2 /\ current_time = 2 => system_down_time' = 3]_vars

\* The end of step 3 of a run from baseline with nothing injected.
C19_Witness ==
    /\ current_time = 3
    /\ system_down_time = 3
    /\ failure_timeline = <<<<3, servers[1], TrafficOverload>>,
                            <<3, servers[2], TrafficOverload>>>>
    /\ \A srv \in ServerSet : status[srv] = "DOWN" /\ load[srv] = 180

\* C20: every entry of a component's recovery_history equals the
\* component's recovery_time.
C20_HistoryEqualsRecoveryTime ==
    \A c \in Names :
        \A i \in DOMAIN recovery_history[c] :
            recovery_history[c][i] = recovery_time[c]

\* A recovery is on record while the timeline holds an event stamped
\* later than the current time: the clock restarted in a later call of
\* simulate and recovery was still timed from down_since.
C20_Witness ==
    /\ \E c \in Names :
           /\ recovery_history[c] # << >>
           /\ InjectedCount(c) >= 1
    /\ \E i \in DOMAIN failure_timeline :
           failure_timeline[i][1] > current_time

\* C18: a step of the dashboard adds to the cost the cost of every
\* component that is DOWN before recovery runs in that step, so that a
\* component is charged for the step in which it recovers.
C18_DashboardChargesBeforeRecovery ==
    [][DashStep =>
          total_failure_cost' - total_failure_cost =
              SumCost({c \in Names : DownAtCheck(c)})]_vars

\* The result of a trial run on a freshly constructed system.
FreshResult(failed, n) ==
    TrialResult(TrialState(Baseline, failed, n), failed, n)

\* C12: the result a trial records is the one the same injection and
\* number of steps give on a fresh system, so two trials of a batch that
\* inject the same component record the same cost, score and outage,
\* whatever ran before each of them.
C12_TrialsReproducible ==
    /\ \A i \in DOMAIN mc_results :
           mc_results[i] = FreshResult(mc_results[i].failed, mc_time_steps)
    /\ \A i, j \in DOMAIN mc_results :
           mc_results[i].failed = mc_results[j].failed
               => mc_results[i] = mc_results[j]

\* The first and the third trial injected the same component and paid
\* for it, with a trial of another component between them and earlier
\* recoveries still on record.
C12_Witness ==
    /\ Len(mc_results) >= 3
    /\ mc_results[1].failed = mc_results[3].failed
    /\ mc_results[2].failed # mc_results[1].failed
    /\ mc_results[1].cost > 0
    /\ HistoryTotal(1) > 0

====
